---- MODULE Spec2Model ----
(***************************************************************************)
(* A model of the Freshservice documentation RAG demo:                     *)
(*   scraper.py  the crawler (fetch, get_links, scrape)                    *)
(*   ingest.py   the indexer (chunk_text, build_index)                     *)
(*   rag.py      the retriever and answerer (load_index, retrieve,         *)
(*               answer_query) with its process-wide cached state          *)
(*   app.py      the HTTP handlers (ingest_local, ask)                     *)
(* Text is a sequence of character codes.  Python lists are sequences;     *)
(* Python's 0-based positions are kept as values (doc_id, chunk_id, idx)   *)
(* and shifted by one where a TLA+ sequence is indexed.                    *)
(***************************************************************************)
EXTENDS Integers, Sequences, FiniteSets, TLC

VARIABLES
    \* ---- persisted files (ingest.py:14-16, rag.py:22-23)
    docs_file,      \* data/docs.json
    embed_file,     \* data/embeddings.npy
    meta_file,      \* data/metadata.json
    \* ---- direct calls of ingest.py's functions
    chunk_call,     \* the last chunk_text(text, max_length) call and its result
    build_ret,      \* the outcome of the last sequential build_index() call
    \* ---- rag.py's process-wide state
    embeddings,     \* rag.py:36
    metas,          \* rag.py:37
    nn,             \* rag.py:38: None, or a reference into objs
    objs,           \* the NearestNeighbors objects constructed so far
    openai_client,  \* rag.py:26-33: whether a completion client is configured
    \* ---- request threads of the web server
    pc,             \* each thread's position in its handler
    loc,            \* each thread's local variables, request and response
    \* ---- scraper.py: scrape()'s locals
    start_url, max_pages, to_visit, visited, docs, out_file, cpc,
    fetched,        \* history: the URLs fetch() was called with, in order
    linked,         \* history: every link get_links() returned so far
    last            \* history: what the last loop iteration did

fileVars  == <<docs_file, embed_file, meta_file>>
callVars  == <<chunk_call, build_ret>>
ragVars   == <<embeddings, metas, nn, objs, openai_client>>
reqVars   == <<pc, loc>>
crawlVars == <<start_url, max_pages, to_visit, visited, docs, out_file, cpc,
               fetched, linked, last>>
vars == <<fileVars, callVars, ragVars, reqVars, crawlVars>>

-----------------------------------------------------------------------------
(* Bounds of the model *)

\* longest document list an ingest run is given
MaxDocs == 2
\* largest max_length passed to chunk_text besides the default
MaxL == 3

\* pages of the crawled site
NPages == 2

\* longest question text in a request
MaxQLen == 2
\* largest top_k passed to retrieve directly
MaxK == 2
\* request threads of the server
NThreads == 2

(* Program constants *)

TOP_K == 4

RETRIES == 3
BACKOFF == 1

CHUNK_SIZE == 500
EXCERPT_LEN == 400

Min(a, b) == IF a <= b THEN a ELSE b

-----------------------------------------------------------------------------
(* Python sequence primitives *)

\* text[i:j] for 0 <= i <= j: positions i .. j-1, clipped at the end of text
Slice(text, i, j) == SubSeq(text, i + 1, Min(j, Len(text)))

\* list(range(0, stop, step)) for step >= 1
PyRange(stop, step) ==
    LET n == (stop + step - 1) \div step
    IN  [k \in 1..n |-> (k - 1) * step]

-----------------------------------------------------------------------------
(* ingest.py *)

\* a variant of chunk_text that drops a short final chunk
chunk_text_dropTail(text, max_length) ==
    LET starts == PyRange(Len(text) - (Len(text) % max_length), max_length)
    IN  [k \in 1..Len(starts) |-> Slice(text, starts[k], starts[k] + max_length)]

chunk_text(text, max_length) ==
    LET starts == PyRange(Len(text), max_length)
    IN  [k \in 1..Len(starts) |-> Slice(text, starts[k], starts[k] + max_length)]

\* The unit vectors the sentence encoder's output is abstracted to.  Their
\* cosine is their dot product, so cosine distances are exact integers.
UnitVecs == << <<1, 0>>, <<0, 1>>, <<-1, 0>>, <<0, -1>> >>

\* SentenceTransformer.encode on one text: a deterministic function of the text
Encode(text) ==
    IF Len(text) = 0 THEN UnitVecs[1]
    ELSE UnitVecs[((text[1] + text[Len(text)] + Len(text)) % 4) + 1]

\* model.encode(text_chunks): one row per chunk, in order
EncodeAll(text_chunks) == [i \in 1..Len(text_chunks) |-> Encode(text_chunks[i])]

\* a variant of DocRows that stores the whole chunk as its excerpt
DocRows_fullExcerpt(idx, doc) ==
    IF doc.content = <<>> THEN <<>>
    ELSE LET chunks == chunk_text(doc.content, CHUNK_SIZE)
         IN  [c \in 1..Len(chunks) |->
                [chunk |-> chunks[c],
                 meta  |-> [doc_id |-> idx, chunk_id |-> c - 1,
                            title |-> doc.title, url |-> doc.url,
                            text_excerpt |-> chunks[c]]]]

\* the rows one document contributes: the loop body of build_index for (idx, doc)
DocRows(idx, doc) ==
    IF doc.content = <<>> THEN <<>>
    ELSE LET chunks == chunk_text(doc.content, CHUNK_SIZE)
         IN  [c \in 1..Len(chunks) |->
                [chunk |-> chunks[c],
                 meta  |-> [doc_id |-> idx, chunk_id |-> c - 1,
                            title |-> doc.title, url |-> doc.url,
                            text_excerpt |-> Slice(chunks[c], 0, EXCERPT_LEN)]]]

RECURSIVE AllRows(_, _)
\* the rows of documents n .. Len(ds), in document order (enumerate(docs))
AllRows(ds, n) ==
    IF n > Len(ds) THEN <<>>
    ELSE DocRows(n - 1, ds[n]) \o AllRows(ds, n + 1)

\* build_index's computation from the loaded docs to (embeddings, metas)
BuildIndex(ds) ==
    LET rows == AllRows(ds, 1)
        text_chunks == [i \in 1..Len(rows) |-> rows[i].chunk]
    IN  [embeddings |-> EncodeAll(text_chunks),
         metas      |-> [i \in 1..Len(rows) |-> rows[i].meta]]

-----------------------------------------------------------------------------
(* Inputs *)

\* lengths of the document contents an ingest run is given: empty, short,
\* one past the chunk size, two full chunks
ContentLens == {0, 3, CHUNK_SIZE + 1, 2 * CHUNK_SIZE}

\* a text of n characters that differ from position to position
Content(n, s) == [i \in 1..n |-> 97 + ((i + s) % 7)]

Doc(n) == [url |-> <<"page", n>>, title |-> <<"title", n>>, content |-> Content(n, n)]

DocLists(pool, maxdocs) == UNION {[1..n -> pool] : n \in 0..maxdocs}

\* the document lists data/docs.json may hold
Corpora == DocLists({Doc(n) : n \in ContentLens}, MaxDocs)

Missing == [ok |-> FALSE]

\* a file written by the ingest run that read the document list ds
File(ds, rows) == [ok |-> TRUE, src |-> ds, rows |-> rows]

NoCall == [called |-> FALSE]

-----------------------------------------------------------------------------
(* States of the parts of the program a specification leaves alone *)

FilesAbsent == docs_file = Missing /\ embed_file = Missing /\ meta_file = Missing
CallsIdle   == chunk_call = NoCall /\ build_ret = [status |-> "none"]
RagUnset    == /\ embeddings = Missing /\ metas = Missing
               /\ nn = 0 /\ objs = <<>> /\ openai_client = FALSE
ReqIdle     == pc = <<>> /\ loc = <<>>
CrawlIdle   == /\ start_url = <<0, 0>> /\ max_pages = 0 /\ to_visit = <<>>
               /\ visited = {} /\ docs = <<>> /\ out_file = Missing
               /\ cpc = "off" /\ fetched = <<>> /\ linked = {}
               /\ last = [kind |-> "none"]

-----------------------------------------------------------------------------
(* The indexer run on its own: chunk_text and build_index called directly *)

InitIngest ==
    /\ docs_file \in {[ok |-> TRUE, docs |-> ds] : ds \in Corpora} \cup {Missing}
    /\ embed_file = Missing /\ meta_file = Missing
    /\ CallsIdle /\ RagUnset /\ ReqIdle /\ CrawlIdle

\* chunk_text(text, max_length) called on its own on a document's content
ChunkTextCall(text, max_length) ==
    /\ chunk_call = NoCall /\ build_ret.status = "none"
    /\ chunk_call' = [called |-> TRUE, text |-> text, max_length |-> max_length,
                      out |-> chunk_text(text, max_length)]
    /\ UNCHANGED <<fileVars, build_ret, ragVars, reqVars, crawlVars>>

\* build_index(), start to end.  fail names the call that raises, if any:
\* the encoder (ingest.py:48-52) or the opening of the metadata file (56).
BuildIndexRun(fail) ==
    /\ chunk_call = NoCall
    /\ IF ~docs_file.ok
       THEN \* open(DATA_FILE) raises
            /\ build_ret' = [status |-> "raised"]
            /\ UNCHANGED <<fileVars, chunk_call, ragVars, reqVars, crawlVars>>
       ELSE LET ds  == docs_file.docs
                ix  == BuildIndex(ds)
            IN  /\ embed_file' = IF fail = "encode" THEN embed_file
                                 ELSE File(ds, ix.embeddings)
                /\ meta_file'  = IF fail = "none" THEN File(ds, ix.metas)
                                 ELSE meta_file
                /\ build_ret'  = IF fail = "none"
                                 THEN [status |-> "ok",
                                       n_embeddings |-> Len(ix.embeddings),
                                       n_metas |-> Len(ix.metas)]
                                 ELSE [status |-> "raised"]
                /\ UNCHANGED <<docs_file, chunk_call, ragVars, reqVars, crawlVars>>

NextIngest ==
    \/ \E i \in 1..(IF docs_file.ok THEN Len(docs_file.docs) ELSE 0) :
       \E L \in 1..MaxL \cup {CHUNK_SIZE} :
          ChunkTextCall(docs_file.docs[i].content, L)
    \/ \E fail \in {"none", "encode", "meta"} : BuildIndexRun(fail)

SpecIngest == InitIngest /\ [][NextIngest]_vars

-----------------------------------------------------------------------------
(* rag.py and app.py: inputs *)

\* the document lists the crawler leaves in data/docs.json while the server
\* runs: n short documents, one chunk each, differing from list to list
ServeCorpus(n) ==
    [i \in 1..n |-> [url |-> <<"page", i>>, title |-> <<"title", i>>,
                     content |-> Content(i + n, n)]]

\* the sizes of those lists: fewer chunks than ask's top_k, and more
ServeSizes == {1, TOP_K + 1}

ServeCorpora == {ServeCorpus(n) : n \in ServeSizes}

\* the index files a completed ingest run over ds leaves
IndexOf(ds) ==
    [embed |-> File(ds, BuildIndex(ds).embeddings),
     meta  |-> File(ds, BuildIndex(ds).metas)]

SPACE == 32

\* str.isspace for the characters of the model
IsSpace(c) == c \in {9, 10, 11, 12, 13, SPACE}

\* the texts of at most n characters over a letter and a blank
Texts(n) == UNION {[1..m -> {SPACE, 97}] : m \in 0..n}

\* JSON values a request may carry as its "question"
QuestionValues ==
    {[t |-> "str", s |-> x] : x \in Texts(MaxQLen)}
    \cup {[t |-> "num"], [t |-> "null"]}

\* request bodies of POST /ask: no JSON body, or a JSON value
Bodies ==
    {[kind |-> "absent"]}
    \cup {[kind |-> "json", val |-> [t |-> x]] : x \in {"null", "num", "list", "str"}}
    \cup {[kind |-> "json", val |-> [t |-> "obj", has_q |-> FALSE]]}
    \cup {[kind |-> "json", val |-> [t |-> "obj", has_q |-> TRUE, question |-> v]] :
            v \in QuestionValues}

\* queries passed to retrieve directly
Queries == {<<97>>, <<97, 97>>}

-----------------------------------------------------------------------------
(* app.py: ask, up to the call of answer_query *)

RECURSIVE LStrip(_)
LStrip(s) == IF s # <<>> /\ IsSpace(Head(s)) THEN LStrip(Tail(s)) ELSE s

RECURSIVE RStrip(_)
RStrip(s) ==
    IF s # <<>> /\ IsSpace(s[Len(s)]) THEN RStrip(SubSeq(s, 1, Len(s) - 1)) ELSE s

\* str.strip()
Strip(s) == RStrip(LStrip(s))

\* a variant of AskValidate that tests the question before trimming it
AskValidate_testUntrimmed(body) ==
    IF body.kind = "absent" THEN [outcome |-> "escaped", exc |-> "HTTPException"]
    ELSE IF body.val.t # "obj" THEN [outcome |-> "escaped", exc |-> "AttributeError"]
    ELSE LET v == IF body.val.has_q THEN body.val.question
                  ELSE [t |-> "str", s |-> <<>>]
         IN  IF v.t # "str" THEN [outcome |-> "escaped", exc |-> "AttributeError"]
             ELSE IF v.s = <<>> THEN [outcome |-> "empty"]
             ELSE [outcome |-> "ok", q |-> Strip(v.s)]

\* lines 24-27 of ask: request.get_json(), data.get("question", "").strip()
\* and the emptiness test.  None of it is inside the try of line 28, so an
\* exception here leaves the handler.
AskValidate(body) ==
    IF body.kind = "absent" THEN [outcome |-> "escaped", exc |-> "HTTPException"]
    ELSE IF body.val.t # "obj" THEN [outcome |-> "escaped", exc |-> "AttributeError"]
    ELSE LET v == IF body.val.has_q THEN body.val.question
                  ELSE [t |-> "str", s |-> <<>>]
         IN  IF v.t # "str" THEN [outcome |-> "escaped", exc |-> "AttributeError"]
             ELSE IF Strip(v.s) = <<>> THEN [outcome |-> "empty"]
             ELSE [outcome |-> "ok", q |-> Strip(v.s)]

-----------------------------------------------------------------------------
(* rag.py: the nearest-neighbor index *)

\* cosine distance of two unit vectors
CosDist(u, v) == 1 - (u[1] * v[1] + u[2] * v[2])

\* NearestNeighbors.kneighbors on fitted rows X, for 1 <= k <= Len(X): the k
\* nearest rows by increasing distance (equal distances by row), each as
\* (distance, 0-based row index)
KNeighbors(X, qv, k) ==
    LET d(i) == CosDist(X[i], qv)
        rank(i) == Cardinality({j \in 1..Len(X) :
                                   d(j) < d(i) \/ (d(j) = d(i) /\ j < i)})
    IN  [r \in 1..k |->
            LET i == CHOOSE x \in 1..Len(X) : rank(x) = r - 1
            IN  [d |-> d(i), idx |-> i - 1]]

\* lines 65-69 of retrieve
Results(knn, M) ==
    [j \in 1..Len(knn) |-> [meta |-> M[knn[j].idx + 1], similarity |-> 1 - knn[j].d]]

\* answer_query's citations (lines 131-138)
Citations(results) ==
    [j \in 1..Len(results) |->
        [title |-> results[j].meta.title, url |-> results[j].meta.url,
         similarity |-> results[j].similarity]]

-----------------------------------------------------------------------------
(* The server: request threads over rag.py's process-wide state *)

\* the names request threads may have; DOMAIN pc are those that run
ThreadIds == 1..NThreads

NoResp == [kind |-> "none"]

IdleLocals ==
    [op |-> "none", body |-> [kind |-> "absent"], q |-> <<>>, k |-> 0, ret |-> 0,
     knn |-> <<>>, built |-> Missing, calls |-> <<>>, invoked |-> {},
     resp |-> NoResp]

\* thread t is at the place label of its handler
At(t, label) == t \in DOMAIN pc /\ pc[t] = label

\* a thread between requests; the response of its last request stays visible
AtRest(t) == At(t, "idle") \/ At(t, "done")

\* an exception raised in thread t: ask (line 31) and ingest_local (line 13)
\* turn it into a 500 response, a direct caller of retrieve sees it
Raise(t, exc) ==
    /\ pc' = [pc EXCEPT ![t] = "done"]
    /\ loc' = [loc EXCEPT ![t].resp =
                 IF loc[t].op = "retrieve" THEN [kind |-> "raised", exc |-> exc]
                 ELSE [kind |-> "http", status |-> 500, body |-> [error |-> exc]]]

Goto(t, label) == pc' = [pc EXCEPT ![t] = label]

\* POST /ask (app.py:22-32) up to the call of answer_query, which calls
\* retrieve at rag.py:104
AskStart(t, body) ==
    /\ AtRest(t)
    /\ LET v == AskValidate(body)
           l == [IdleLocals EXCEPT !.op = "ask", !.body = body]
       IN  CASE v.outcome = "escaped" ->
                  /\ pc' = [pc EXCEPT ![t] = "done"]
                  /\ loc' = [loc EXCEPT ![t] =
                               [l EXCEPT !.resp = [kind |-> "escaped", exc |-> v.exc]]]
             [] v.outcome = "empty" ->
                  /\ pc' = [pc EXCEPT ![t] = "done"]
                  /\ loc' = [loc EXCEPT ![t] =
                               [l EXCEPT !.resp = [kind |-> "http", status |-> 400,
                                                   body |-> [error |-> "empty question"]]]]
             [] v.outcome = "ok" ->
                  /\ pc' = [pc EXCEPT ![t] = "r_check"]
                  /\ loc' = [loc EXCEPT ![t] =
                               [l EXCEPT !.q = v.q, !.k = TOP_K,
                                         !.calls = <<[question |-> v.q, top_k |-> TOP_K]>>,
                                         !.invoked = {"answer_query", "retrieve"}]]
    /\ UNCHANGED <<fileVars, callVars, ragVars, crawlVars>>

\* retrieve(query, top_k) called directly
RetrieveCall(t, q, k) ==
    /\ AtRest(t)
    /\ pc' = [pc EXCEPT ![t] = "r_check"]
    /\ loc' = [loc EXCEPT ![t] =
                 [IdleLocals EXCEPT !.op = "retrieve", !.q = q, !.k = k,
                                    !.invoked = {"retrieve"}]]
    /\ UNCHANGED <<fileVars, callVars, ragVars, crawlVars>>

\* rag.py:57  if nn is None
RCheck(t) ==
    /\ At(t, "r_check")
    /\ IF nn = 0
       THEN /\ Goto(t, "l_emb")
            /\ loc' = [loc EXCEPT ![t].invoked = @ \cup {"load_index"}]
       ELSE Goto(t, "r_knn") /\ UNCHANGED loc
    /\ UNCHANGED <<fileVars, callVars, ragVars, crawlVars>>

\* rag.py:44-45  if embeddings is None: embeddings = np.load(EMBED_FILE)
LoadEmb(t) ==
    /\ At(t, "l_emb")
    /\ IF embeddings # Missing
       THEN Goto(t, "l_meta") /\ UNCHANGED <<loc, embeddings>>
       ELSE IF ~embed_file.ok
       THEN Raise(t, "FileNotFoundError") /\ UNCHANGED embeddings
       ELSE embeddings' = embed_file /\ Goto(t, "l_meta") /\ UNCHANGED loc
    /\ UNCHANGED <<fileVars, callVars, metas, nn, objs, openai_client, crawlVars>>

\* rag.py:46-48  if metas is None: metas = json.load(f)
LoadMeta(t) ==
    /\ At(t, "l_meta")
    /\ IF metas # Missing
       THEN Goto(t, "l_new") /\ UNCHANGED <<loc, metas>>
       ELSE IF ~meta_file.ok
       THEN Raise(t, "FileNotFoundError") /\ UNCHANGED metas
       ELSE metas' = meta_file /\ Goto(t, "l_new") /\ UNCHANGED loc
    /\ UNCHANGED <<fileVars, callVars, embeddings, nn, objs, openai_client, crawlVars>>

\* rag.py:49  nn = NearestNeighbors(n_neighbors=8, metric="cosine"): the
\* process-wide name is bound to the new, unfitted object
NewNN(t) ==
    /\ At(t, "l_new")
    /\ objs' = Append(objs, [fitted |-> FALSE, X |-> <<>>])
    /\ nn' = Len(objs) + 1
    /\ Goto(t, "l_fit")
    /\ UNCHANGED <<fileVars, callVars, embeddings, metas, openai_client, loc, crawlVars>>

\* rag.py:50  nn.fit(embeddings): both names are read from the process-wide
\* state now; fit raises on a matrix without rows
FitNN(t) ==
    /\ At(t, "l_fit")
    /\ IF Len(embeddings.rows) = 0
       THEN Raise(t, "ValueError") /\ UNCHANGED objs
       ELSE /\ objs' = [objs EXCEPT ![nn] = [fitted |-> TRUE, X |-> embeddings.rows]]
            /\ Goto(t, "l_ret")
            /\ UNCHANGED loc
    /\ UNCHANGED <<fileVars, callVars, embeddings, metas, nn, openai_client, crawlVars>>

\* rag.py:51  return nn
LoadRet(t) ==
    /\ At(t, "l_ret")
    /\ loc' = [loc EXCEPT ![t].ret = nn]
    /\ Goto(t, "r_assign")
    /\ UNCHANGED <<fileVars, callVars, ragVars, crawlVars>>

\* rag.py:58  nn = load_index()
AssignNN(t) ==
    /\ At(t, "r_assign")
    /\ nn' = loc[t].ret
    /\ Goto(t, "r_knn")
    /\ UNCHANGED <<fileVars, callVars, embeddings, metas, objs, openai_client, loc, crawlVars>>

\* rag.py:60-64  encode the query and ask the index nn names now for its
\* top_k neighbors: kneighbors raises on an unfitted index and when top_k
\* exceeds the number of fitted rows
KNN(t) ==
    /\ At(t, "r_knn")
    /\ LET o == objs[nn]
       IN  IF ~o.fitted THEN Raise(t, "NotFittedError")
           ELSE IF loc[t].k > Len(o.X) THEN Raise(t, "ValueError")
           ELSE /\ loc' = [loc EXCEPT ![t].knn = KNeighbors(o.X, Encode(loc[t].q), loc[t].k)]
                /\ Goto(t, "r_lookup")
    /\ UNCHANGED <<fileVars, callVars, ragVars, crawlVars>>

\* rag.py:65-70 and, for ask, the rest of answer_query (105-139) and of the
\* handler (app.py:30).  llm_ok: whether the completion call returns.
Lookup(t, llm_ok) ==
    /\ At(t, "r_lookup")
    /\ LET knn == loc[t].knn
       IN  IF \E j \in 1..Len(knn) : knn[j].idx >= Len(metas.rows)
           THEN Raise(t, "IndexError")
           ELSE LET results == Results(knn, metas.rows)
                IN  IF loc[t].op = "retrieve"
                    THEN /\ loc' = [loc EXCEPT ![t].resp =
                                      [kind |-> "results", results |-> results]]
                         /\ Goto(t, "done")
                    ELSE IF openai_client /\ ~llm_ok
                    THEN Raise(t, "APIError")
                    ELSE /\ loc' = [loc EXCEPT ![t].resp =
                                      [kind |-> "http", status |-> 200,
                                       body |-> [answer |-> IF openai_client THEN "completion"
                                                            ELSE "snippets",
                                                 citations |-> Citations(results)]]]
                         /\ Goto(t, "done")
    /\ UNCHANGED <<fileVars, callVars, ragVars, crawlVars>>

\* POST /ingest_local (app.py:8-14): build_index up to the encoder's return
\* (ingest.py:23-53)
IngestStart(t) ==
    /\ AtRest(t)
    /\ IF ~docs_file.ok
       THEN /\ pc' = [pc EXCEPT ![t] = "done"]
            /\ loc' = [loc EXCEPT ![t] =
                         [IdleLocals EXCEPT !.op = "ingest",
                             !.resp = [kind |-> "http", status |-> 500,
                                       body |-> [error |-> "FileNotFoundError"]]]]
       ELSE /\ pc' = [pc EXCEPT ![t] = "i_save_emb"]
            /\ loc' = [loc EXCEPT ![t] =
                         [IdleLocals EXCEPT !.op = "ingest",
                             !.built = [ok |-> TRUE, src |-> docs_file.docs,
                                        index |-> BuildIndex(docs_file.docs)]]]
    /\ UNCHANGED <<fileVars, callVars, ragVars, crawlVars>>

\* ingest.py:56  np.save(EMBED_FILE, embeddings)
IngestSaveEmb(t) ==
    /\ At(t, "i_save_emb")
    /\ embed_file' = File(loc[t].built.src, loc[t].built.index.embeddings)
    /\ Goto(t, "i_save_meta")
    /\ UNCHANGED <<docs_file, meta_file, callVars, ragVars, loc, crawlVars>>

\* ingest.py:57-61 and app.py:12
IngestSaveMeta(t) ==
    /\ At(t, "i_save_meta")
    /\ meta_file' = File(loc[t].built.src, loc[t].built.index.metas)
    /\ Goto(t, "done")
    /\ loc' = [loc EXCEPT ![t].resp =
                 [kind |-> "http", status |-> 200,
                  body |-> [status |-> "ok",
                            chunks |-> Len(loc[t].built.index.embeddings)]]]
    /\ UNCHANGED <<docs_file, embed_file, callVars, ragVars, crawlVars>>

\* a crawl ends and replaces data/docs.json (scraper.py:84-85)
DocsReplaced(ds) ==
    /\ docs_file # [ok |-> TRUE, docs |-> ds]
    /\ docs_file' = [ok |-> TRUE, docs |-> ds]
    /\ UNCHANGED <<embed_file, meta_file, callVars, ragVars, reqVars, crawlVars>>

\* the steps of retrieve and load_index
RetrieveStep(t) ==
    \/ RCheck(t) \/ LoadEmb(t) \/ LoadMeta(t) \/ NewNN(t) \/ FitNN(t)
    \/ LoadRet(t) \/ AssignNN(t) \/ KNN(t)
    \/ \E llm_ok \in BOOLEAN : Lookup(t, llm_ok)

\* the bodies of the ask requests sent while ingests run: a question, none,
\* and a JSON list
ServeBodies ==
    {[kind |-> "json", val |-> [t |-> "list"]],
     [kind |-> "json", val |-> [t |-> "obj", has_q |-> FALSE]],
     [kind |-> "json", val |-> [t |-> "obj", has_q |-> TRUE,
                                question |-> [t |-> "str", s |-> <<97>>]]]}

\* a process with n request threads, with or without a completion client,
\* started over the crawler's output and the index files of a finished
\* ingest run over it or, if fresh, no index files yet
InitProcess(n, clients, fresh) ==
    /\ \E ds \in ServeCorpora :
          /\ docs_file = [ok |-> TRUE, docs |-> ds]
          /\ \/ embed_file = IndexOf(ds).embed /\ meta_file = IndexOf(ds).meta
             \/ fresh /\ embed_file = Missing /\ meta_file = Missing
    /\ embeddings = Missing /\ metas = Missing /\ nn = 0 /\ objs = <<>>
    /\ openai_client \in clients
    /\ pc = [t \in 1..n |-> "idle"]
    /\ loc = [t \in 1..n |-> IdleLocals]
    /\ CallsIdle /\ CrawlIdle

(* One caller at a time: queries against the files of a finished ingest run *)

InitQuery == InitProcess(1, BOOLEAN, FALSE)

NextQuery ==
    \E t \in ThreadIds :
       \/ \E body \in Bodies : AskStart(t, body)
       \/ \E q \in Queries, k \in 1..MaxK : RetrieveCall(t, q, k)
       \/ RetrieveStep(t)

SpecQuery == InitQuery /\ [][NextQuery]_vars

(* Concurrent callers of retrieve, the files unchanged *)

InitRace == InitProcess(NThreads, {FALSE}, FALSE)

NextRace ==
    \E t \in ThreadIds :
       \/ \E q \in Queries, k \in 1..MaxK : RetrieveCall(t, q, k)
       \/ RetrieveStep(t)

SpecRace == InitRace /\ [][NextRace]_vars

(* The server: concurrent ask and ingest requests, the crawler's output changing *)

InitServe == InitProcess(NThreads, {FALSE}, TRUE)

NextServe ==
    \/ \E t \in ThreadIds :
          \/ \E body \in ServeBodies : AskStart(t, body)
          \/ IngestStart(t) \/ IngestSaveEmb(t) \/ IngestSaveMeta(t)
          \/ RetrieveStep(t)
    \/ \E ds \in ServeCorpora : DocsReplaced(ds)

SpecServe == InitServe /\ [][NextServe]_vars

-----------------------------------------------------------------------------
(* Properties of the indexer *)

RECURSIVE Concat(_, _, _)
\* the in-order concatenation of seqs[lo], ..., seqs[hi]
Concat(seqs, lo, hi) ==
    IF lo > hi THEN <<>>
    ELSE IF lo = hi THEN seqs[lo]
    ELSE LET mid == (lo + hi) \div 2
         IN  Concat(seqs, lo, mid) \o Concat(seqs, mid + 1, hi)

\* C1: for every text and max_length L >= 1, the chunks chunk_text returns
\* concatenate in order to the text, none is empty or longer than L, every
\* chunk but the last has exactly L characters, and an empty text has none.
C1_ChunksPartitionText ==
    chunk_call.called =>
        LET text == chunk_call.text
            L    == chunk_call.max_length
            out  == chunk_call.out
        IN  /\ Concat(out, 1, Len(out)) = text
            /\ \A i \in 1..Len(out) : Len(out[i]) >= 1 /\ Len(out[i]) <= L
            /\ \A i \in 1..(Len(out) - 1) : Len(out[i]) = L
            /\ (text = <<>> => out = <<>>)

\* a call that produced several chunks, the last one shorter than max_length
C1_Witness ==
    /\ chunk_call.called
    /\ Len(chunk_call.out) >= 2
    /\ Len(chunk_call.out[Len(chunk_call.out)]) < chunk_call.max_length

\* the chunk (doc_id, chunk_id) names in the document list ds
ChunkAt(ds, doc_id, chunk_id) ==
    Slice(ds[doc_id + 1].content, chunk_id * CHUNK_SIZE, (chunk_id + 1) * CHUNK_SIZE)

\* metadata entry m describes embedding row e over the document list ds
Describes(ds, m, e) ==
    /\ m.doc_id \in 0..(Len(ds) - 1)
    /\ m.chunk_id >= 0
    /\ LET chunk == ChunkAt(ds, m.doc_id, m.chunk_id)
       IN  /\ chunk # <<>>
           /\ e = Encode(chunk)
           /\ m.text_excerpt = Slice(chunk, 0, EXCERPT_LEN)

\* C2: after a successful build_index run the persisted metadata has as many
\* entries as the embedding matrix has rows, entry i describes the chunk
\* embedded at row i (doc_id the document's list position, chunk_id the
\* chunk's position in it, text_excerpt its first 400 characters), documents
\* with empty content contribute no rows, every chunk of every other
\* document has its row, and rows are in document order then chunk order.
C2_MetadataAlignedWithRows ==
    build_ret.status = "ok" =>
        LET ds == docs_file.docs
            E  == embed_file.rows
            M  == meta_file.rows
        IN  /\ embed_file.ok /\ meta_file.ok
            /\ Len(M) = Len(E)
            /\ build_ret.n_embeddings = Len(E) /\ build_ret.n_metas = Len(M)
            /\ \A i \in 1..Len(M) : i <= Len(E) /\ Describes(ds, M[i], E[i])
            /\ \A i \in 1..(Len(M) - 1) :
                  \/ M[i].doc_id < M[i + 1].doc_id
                  \/ /\ M[i].doc_id = M[i + 1].doc_id
                     /\ M[i].chunk_id < M[i + 1].chunk_id
            /\ \A d \in 1..Len(ds) :
                  \A c \in 0..(Len(ds[d].content) - 1) :
                     c % CHUNK_SIZE = 0 =>
                        \E i \in 1..Len(M) :
                           M[i].doc_id = d - 1 /\ M[i].chunk_id = c \div CHUNK_SIZE

\* a successful run over a list with an empty document and a later document
\* of several chunks
C2_Witness ==
    /\ build_ret.status = "ok"
    /\ \E d \in 1..Len(docs_file.docs) : docs_file.docs[d].content = <<>>
    /\ \E i \in 1..Len(meta_file.rows) :
          meta_file.rows[i].doc_id = 1 /\ meta_file.rows[i].chunk_id = 1

-----------------------------------------------------------------------------
(* scraper.py *)

\* A URL of the crawled site is <<page, fragment>>: fragment 0 is no
\* fragment, fragment 1 is "#section".
Pages == 1..NPages
Urls  == Pages \X {0, 1}

\* the page budgets a crawl is given: from none to more than the site holds
Budgets == 0..(NPages + 1)

\* abs_url.split("#")[0]
StripFragment(u) == <<u[1], 0>>

\* The anchors a page may hold, as urljoin resolves them: links into the
\* site, a mailto: and a javascript: href, a link of another scheme and a
\* link to another domain.
Hrefs ==
    {[scheme |-> "https", domain |-> "seed", url |-> u] : u \in Urls}
    \cup {[scheme |-> "mailto", domain |-> "", url |-> <<0, 0>>],
          [scheme |-> "javascript", domain |-> "", url |-> <<0, 0>>],
          [scheme |-> "ftp", domain |-> "seed", url |-> <<0, 0>>],
          [scheme |-> "https", domain |-> "other", url |-> <<0, 0>>]}

\* get_links(html, base): the set built by lines 42-51
get_links(hrefs) ==
    {StripFragment(h.url) :
        h \in {g \in hrefs : /\ g.scheme \notin {"mailto", "javascript"}
                             /\ g.domain = "seed"
                             /\ g.scheme \in {"http", "https"}}}

\* the orders list(links) may give the set (set iteration order)
Orderings(S) ==
    {o \in [1..Cardinality(S) -> S] : \A i, j \in 1..Cardinality(S) : i # j => o[i] # o[j]}

RECURSIVE fetch_sleepAfterLast(_, _)
\* a variant of fetch that sleeps after every failed attempt, the last too
fetch_sleepAfterLast(outcomes, i) ==
    IF i >= RETRIES THEN [ok |-> FALSE, attempts |-> i, sleeps |-> <<>>]
    ELSE IF outcomes[i + 1] THEN [ok |-> TRUE, attempts |-> i + 1, sleeps |-> <<>>]
    ELSE LET r == fetch_sleepAfterLast(outcomes, i + 1)
         IN  [r EXCEPT !.sleeps = <<BACKOFF * (i + 1)>> \o @]

RECURSIVE fetch(_, _)
\* fetch(url) from attempt i on; outcomes[i + 1] says whether attempt i gets
\* a good response.  ok = FALSE is the exception re-raised at line 21.
fetch(outcomes, i) ==
    IF i >= RETRIES THEN [ok |-> FALSE, attempts |-> i, sleeps |-> <<>>]
    ELSE IF outcomes[i + 1] THEN [ok |-> TRUE, attempts |-> i + 1, sleeps |-> <<>>]
    ELSE IF i = RETRIES - 1 THEN [ok |-> FALSE, attempts |-> i + 1, sleeps |-> <<>>]
    ELSE LET r == fetch(outcomes, i + 1)
         IN  [r EXCEPT !.sleeps = <<BACKOFF * (i + 1)>> \o @]

\* extract_text_from_page(html, url) and the Document line 72 appends
Document(url) ==
    [url |-> url, title |-> <<"title", url[1]>>, content |-> Content(url[1], 0)]

\* the links lines 78-80 append to to_visit, given them in the order links
RECURSIVE AppendNew(_, _, _)
AppendNew(tv, vis, links) ==
    IF links = <<>> THEN tv
    ELSE LET l == Head(links)
             member == l \in vis \/ \E i \in 1..Len(tv) : tv[i] = l
         IN  AppendNew(IF member THEN tv ELSE Append(tv, l), vis, Tail(links))

\* a variant of the loop condition that is off by one page
LoopCond_offByOne(tv, vis, budget) == tv # <<>> /\ Cardinality(vis) <= budget

\* line 59: while to_visit and len(visited) < max_pages
LoopCond(tv, vis, budget) == tv # <<>> /\ Cardinality(vis) < budget

InitCrawl ==
    /\ start_url \in Urls
    /\ max_pages \in Budgets
    /\ to_visit = <<start_url>>
    /\ visited = {}
    /\ docs = <<>>
    /\ out_file = Missing
    /\ cpc = "loop"
    /\ fetched = <<>> /\ linked = {} /\ last = [kind |-> "none"]
    /\ FilesAbsent /\ CallsIdle /\ RagUnset /\ ReqIdle

\* One iteration of the while loop (lines 60-83).  outcomes: what each fetch
\* attempt meets; parse: what extract_text_from_page does; hrefs: the page's
\* anchors; links_ok: whether get_links returns (line 81 swallows its
\* exception).  list(links) gives the set in any order.
ScrapeIter(outcomes, parse, hrefs, links_ok) ==
    /\ cpc = "loop"
    /\ LoopCond(to_visit, visited, max_pages)
    /\ LET url  == Head(to_visit)
           rest == Tail(to_visit)
           f    == fetch(outcomes, 0)
       IN  IF url \in visited
           THEN /\ to_visit' = rest
                /\ UNCHANGED <<visited, docs, fetched, linked, last>>
           ELSE IF ~f.ok
           THEN /\ to_visit' = rest
                /\ visited' = visited \cup {url}
                /\ fetched' = Append(fetched, [url |-> url, ok |-> FALSE])
                /\ last' = [kind |-> "fetch_failed", url |-> url,
                            attempts |-> f.attempts, sleeps |-> f.sleeps]
                /\ UNCHANGED <<docs, linked>>
           ELSE LET links == IF links_ok THEN get_links(hrefs) ELSE {}
                IN  /\ \E order \in Orderings(links) :
                          to_visit' = AppendNew(rest, visited \cup {url}, order)
                    /\ docs' = IF parse = "raise" THEN docs
                               ELSE Append(docs, Document(url))
                    /\ visited' = visited \cup {url}
                    /\ fetched' = Append(fetched, [url |-> url, ok |-> TRUE])
                    /\ linked' = linked \cup links
                    /\ last' = [kind |-> IF parse = "raise" THEN "parse_failed"
                                         ELSE "parsed",
                                url |-> url,
                                attempts |-> f.attempts, sleeps |-> f.sleeps]
    /\ UNCHANGED <<start_url, max_pages, out_file, cpc>>
    /\ UNCHANGED <<fileVars, callVars, ragVars, reqVars>>

\* lines 84-87: after the loop, the document list is written and returned
ScrapeSave ==
    /\ cpc = "loop"
    /\ ~LoopCond(to_visit, visited, max_pages)
    /\ out_file' = [ok |-> TRUE, docs |-> docs]
    /\ cpc' = "done"
    /\ UNCHANGED <<start_url, max_pages, to_visit, visited, docs, fetched, linked, last>>
    /\ UNCHANGED <<fileVars, callVars, ragVars, reqVars>>

\* anchors every page carries besides its links into the site
NoiseHrefs == {h \in Hrefs : h.scheme # "https" \/ h.domain # "seed"}

\* the anchors of a page: links to any pages of the site, with and without
\* fragments, and the anchors get_links must leave out
PageAnchors ==
    {{[scheme |-> "https", domain |-> "seed", url |-> <<p, p % 2>>] : p \in T}
        \cup NoiseHrefs : T \in SUBSET Pages}

\* what the attempts of one fetch meet: a server that answers from some
\* attempt on, or never
AttemptPatterns ==
    {o \in [1..RETRIES -> BOOLEAN] : \A i, j \in 1..RETRIES : (i < j /\ o[i]) => o[j]}

\* what one loop iteration may meet.  A fetch that fails reads no page, and
\* a get_links that raises returns no links, so those cases are listed once.
IterInputs ==
    {[outcomes |-> [i \in 1..RETRIES |-> FALSE], parse |-> "ok",
      hrefs |-> {}, links_ok |-> TRUE]}
    \cup {[outcomes |-> o, parse |-> pa, hrefs |-> h, links_ok |-> TRUE] :
            o \in {x \in AttemptPatterns : x[RETRIES]},
            pa \in {"ok", "raise"}, h \in PageAnchors}
    \cup {[outcomes |-> o, parse |-> pa, hrefs |-> NoiseHrefs, links_ok |-> FALSE] :
            o \in {x \in AttemptPatterns : x[RETRIES]},
            pa \in {"ok", "raise"}}

NextCrawl ==
    \/ \E in \in IterInputs : ScrapeIter(in.outcomes, in.parse, in.hrefs, in.links_ok)
    \/ ScrapeSave

SpecCrawl == InitCrawl /\ [][NextCrawl]_vars

\* scrape() is one sequential call: it keeps running until it returns
SpecCrawlFair == SpecCrawl /\ WF_vars(NextCrawl)

-----------------------------------------------------------------------------
(* Properties of the crawler *)

Range(seq) == {seq[i] : i \in 1..Len(seq)}

IsPrefix(a, b) == Len(a) <= Len(b) /\ SubSeq(b, 1, Len(a)) = a

\* the budget and document bounds, and the state scrape returns in
CrawlSafe ==
    /\ Cardinality(visited) <= max_pages
    /\ Len(docs) <= Cardinality(visited)
    /\ cpc = "done" =>
          /\ to_visit = <<>> \/ Cardinality(visited) = max_pages
          /\ out_file = [ok |-> TRUE, docs |-> docs]

\* C7: for every seed, page budget and pattern of fetch successes and
\* failures over a finite site, scrape terminates; when its loop exits the
\* frontier is empty or the visited count equals max_pages; the visited
\* count never exceeds max_pages, the Documents never outnumber the visited
\* URLs, and the document list is written to the output file after the loop.
C7_CrawlTerminatesWithinBudget == []CrawlSafe /\ <>(cpc = "done")

\* a crawl that stopped on its budget with URLs still in the frontier
C7_Witness ==
    /\ cpc = "done" /\ to_visit # <<>>
    /\ Cardinality(visited) = max_pages /\ max_pages >= 2
    /\ Len(docs) < Cardinality(visited)

\* what a loop iteration that ended in a failed fetch or a failed parse did
FailedStepSkipsPage ==
    (fetched' # fetched /\ last'.kind \in {"fetch_failed", "parse_failed"}) =>
        /\ last'.url = Head(to_visit)
        /\ visited' = visited \cup {last'.url}
        /\ docs' = docs
        /\ cpc' = "loop"
        /\ last'.kind = "fetch_failed" =>
              /\ to_visit' = Tail(to_visit)
              /\ linked' = linked
              /\ last'.attempts = RETRIES
              /\ last'.sleeps = <<BACKOFF * 1, BACKOFF * 2>>

\* nothing the crawl has found is lost, no URL is fetched twice, and a page
\* whose fetch failed is not fetched again under another fragment either
CrawlContinues ==
    /\ linked \subseteq visited \cup Range(to_visit)
    /\ Range(to_visit) \cap visited = {}
    /\ \A i, j \in 1..Len(fetched) : i # j => fetched[i].url # fetched[j].url
    /\ \A i, j \in 1..Len(fetched) :
          (i < j /\ ~fetched[i].ok) =>
             StripFragment(fetched[i].url) # StripFragment(fetched[j].url)
    /\ visited = {fetched[i].url : i \in 1..Len(fetched)}
    /\ \A i \in 1..Len(docs) : \E j \in 1..Len(fetched) :
          fetched[j].ok /\ fetched[j].url = docs[i].url
    /\ cpc = "done" =>
          /\ to_visit = <<>> \/ Cardinality(visited) = max_pages
          /\ out_file.docs = docs

\* C8: a URL whose fetch fails on all of its 3 attempts (sleeps of backoff*1
\* and backoff*2 between them, none after the last) is added to visited,
\* yields no Document and no links, is never fetched again, and the crawl
\* goes on: every URL found stays in the frontier until it is visited or the
\* budget is spent, and Documents already collected stay in the output.  A
\* page that is fetched but whose parsing raises yields no Document either,
\* is marked visited, and does not abort the crawl.
C8_FailedPageIsSkipped ==
    /\ [][FailedStepSkipsPage]_vars
    /\ [][IsPrefix(docs, docs')]_vars
    /\ []CrawlContinues

\* a finished crawl in which a fetch failed between two pages that both
\* produced Documents
C8_Witness ==
    /\ cpc = "done"
    /\ Len(out_file.docs) >= 2
    /\ \E i, j, k \in 1..Len(fetched) :
          /\ i < j /\ j < k
          /\ fetched[i].ok /\ ~fetched[j].ok /\ fetched[k].ok
          /\ out_file.docs[1].url = fetched[i].url
          /\ out_file.docs[Len(out_file.docs)].url = fetched[k].url

\* C9: within one crawl, whatever the seed (with or without a fragment), no
\* two fetched URLs are equal once their fragments are removed, no two
\* Documents have URLs that differ only in their fragment, and no URL is in
\* the frontier twice or enqueued after it has been visited.
C9_DedupAfterStrippingFragments ==
    /\ \A i, j \in 1..Len(fetched) :
          i # j => StripFragment(fetched[i].url) # StripFragment(fetched[j].url)
    /\ \A i, j \in 1..Len(docs) :
          i # j => StripFragment(docs[i].url) # StripFragment(docs[j].url)
    /\ \A i, j \in 1..Len(to_visit) : i # j => to_visit[i] # to_visit[j]
    /\ Range(to_visit) \cap visited = {}

-----------------------------------------------------------------------------
(* Properties of the retriever and the handlers *)

\* results are by non-increasing similarity, each similarity 1 minus the
\* cosine distance to the query of the chunk its metadata names
RankedBySimilarity(results, q) ==
    /\ \A j \in 1..(Len(results) - 1) :
          results[j].similarity >= results[j + 1].similarity
    /\ \A j \in 1..Len(results) :
          \E i \in 1..Len(meta_file.rows) :
             /\ meta_file.rows[i] = results[j].meta
             /\ results[j].similarity = 1 - CosDist(embed_file.rows[i], Encode(q))

\* C3: for every query and k >= 1, retrieve(query, top_k=k) over an index of
\* n chunks returns exactly min(k, n) results, also when k > n, ordered by
\* non-increasing similarity, each similarity 1 minus the cosine distance.
C3_RetrieveReturnsMinKN ==
    \A t \in DOMAIN pc :
       (At(t, "done") /\ loc[t].op = "retrieve" /\ loc[t].k >= 1) =>
          /\ loc[t].resp.kind = "results"
          /\ Len(loc[t].resp.results) = Min(loc[t].k, Len(embed_file.rows))
          /\ RankedBySimilarity(loc[t].resp.results, loc[t].q)

\* the text s with its leading and trailing whitespace removed
Trimmed(s) ==
    LET solid == {i \in 1..Len(s) : ~IsSpace(s[i])}
    IN  IF solid = {} THEN <<>>
        ELSE SubSeq(s, CHOOSE i \in solid : \A j \in solid : i <= j,
                       CHOOSE i \in solid : \A j \in solid : i >= j)

\* the question text of an ask request whose body is a JSON object with a
\* string question or none
QuestionText(body) ==
    IF body.val.has_q THEN body.val.question.s ELSE <<>>

HasQuestionText(body) ==
    /\ body.kind = "json" /\ body.val.t = "obj"
    /\ body.val.has_q => body.val.question.t = "str"

\* C4: an ask request whose question is empty, all whitespace or absent from
\* the JSON object gets status 400 with {error: "empty question"} and never
\* invokes answer_query, retrieve or index loading; for a question that is
\* non-empty after trimming, answer_query is invoked exactly once, with the
\* trimmed question and top_k = 4.
C4_EmptyQuestionRejected ==
    \A t \in DOMAIN pc :
       (loc[t].op = "ask" /\ HasQuestionText(loc[t].body)) =>
          LET s == QuestionText(loc[t].body)
          IN  IF Trimmed(s) = <<>>
              THEN /\ At(t, "done")
                   /\ loc[t].resp = [kind |-> "http", status |-> 400,
                                     body |-> [error |-> "empty question"]]
                   /\ loc[t].calls = <<>>
                   /\ loc[t].invoked = {}
              ELSE /\ loc[t].calls = <<[question |-> Trimmed(s), top_k |-> 4]>>
                   /\ "answer_query" \in loc[t].invoked

\* an ask request with a question of blanks only was answered 400
C4_Witness ==
    \E t \in DOMAIN pc :
       /\ loc[t].op = "ask" /\ HasQuestionText(loc[t].body)
       /\ Len(QuestionText(loc[t].body)) >= 1
       /\ Trimmed(QuestionText(loc[t].body)) = <<>>
       /\ loc[t].resp.kind = "http" /\ loc[t].resp.status = 400

\* C5: whatever the body of a trigger-ingest or ask request is, an exception
\* raised anywhere in the handler is caught by it and reported as a
\* structured {error: <string>} response with an error status; none escapes.
C5_NoExceptionEscapesHandler ==
    \A t \in DOMAIN pc :
       (At(t, "done") /\ loc[t].op \in {"ask", "ingest"}) =>
          /\ loc[t].resp.kind = "http"
          /\ loc[t].resp.status \in {200, 400, 500}

\* what retrieve(q, k) gives when it runs alone over the persisted files
SequentialResult(q, k) ==
    IF Len(embed_file.rows) = 0 \/ k > Len(embed_file.rows)
    THEN [kind |-> "raised", exc |-> "ValueError"]
    ELSE [kind |-> "results",
          results |-> Results(KNeighbors(embed_file.rows, Encode(q), k), meta_file.rows)]

\* C6: with the files unchanged, concurrent first calls of retrieve race on
\* the lazy load without effect: every call returns what it would return
\* run alone (so none fails that would not), the cached state after them is
\* that of one sequential load, and no call queries a nearest-neighbor
\* index that is bound to the process-wide name but not yet fitted.
C6_LazyLoadRaceIsBenign ==
    /\ \A t \in DOMAIN pc :
          At(t, "r_knn") => (nn # 0 /\ objs[nn].fitted)
    /\ \A t \in DOMAIN pc :
          (At(t, "done") /\ loc[t].op = "retrieve") =>
             loc[t].resp = SequentialResult(loc[t].q, loc[t].k)
    /\ ((\A t \in DOMAIN pc : AtRest(t)) /\ (\E t \in DOMAIN pc : At(t, "done"))) =>
          /\ embeddings = embed_file /\ metas = meta_file
          /\ nn # 0 /\ objs[nn] = [fitted |-> TRUE, X |-> embed_file.rows]

\* the cached metadata and embedding matrix come from one ingest run and
\* entry i describes row i
CacheAligned ==
    /\ embeddings.ok /\ metas.ok
    /\ embeddings.src = metas.src
    /\ Len(metas.rows) = Len(embeddings.rows)
    /\ \A i \in 1..Len(metas.rows) :
          Describes(metas.src, metas.rows[i], embeddings.rows[i])

\* C10: for every interleaving of trigger-ingest and ask requests in one
\* process, whenever retrieve looks up metas[idx] the cached metadata and
\* the cached embedding matrix come from the same ingest run: same number
\* of rows, and metadata entry i describes the vector at row i.
C10_CacheAlignedAtLookup ==
    \A t \in DOMAIN pc : At(t, "r_lookup") => CacheAligned

====
